---- MODULE Spec2Model ----
(***************************************************************************)
(* Frequency-switch coordination between the orchestrator                  *)
(* (server.py, JammingServer) and a mesh agent (client.py,                 *)
(* JammingDetectionClient).                                                *)
(*                                                                         *)
(* The orchestrator polls a trigger file and broadcasts switch_frequency   *)
(* messages over its connection registry.  The agent's listen thread       *)
(* receives them, updates its target and runs switch_frequency(), which    *)
(* calls recovering_switch_error() on a failed switch, which calls         *)
(* switch_frequency() again: the listen thread's call stack is modelled    *)
(* frame by frame.                                                         *)
(***************************************************************************)
EXTENDS Integers, Sequences, FiniteSets, TLC

\* ------------------------------------------------------------------ bounds
MaxClients == 3      \* connections ever accepted by the orchestrator
MaxLinked == 2       \* the same, when the agent is one of them
MaxInbox == 2        \* frames buffered on the agent's socket
MaxDepth == 5        \* frames on the listen thread's call stack
MaxTime == 50        \* the clock stops advancing here
TickStep == 10       \* clock granularity
MaxBroadcasts == 3   \* the broadcast counter saturates here

\* --------------------------------------------------------- program constants
NaN == -1                        \* np.nan: unequal to everything, itself included
None == -2                       \* Python None (a message without "freq")
periodic_recovery_switch == 20
max_retries == 3
connect_sleep == 3
switch_frequency_id == 4
estimation_request_id == 1

VALID_CHANNELS == {36, 40, 44, 48, 149, 153, 157, 161}

CH_TO_FREQ ==
    { <<1, 2412>>, <<2, 2417>>, <<3, 2422>>, <<4, 2427>>, <<5, 2432>>,
      <<6, 2437>>, <<7, 2442>>, <<8, 2447>>, <<9, 2452>>, <<10, 2457>>,
      <<11, 2462>>,
      <<36, 5180>>, <<40, 5200>>, <<44, 5220>>, <<48, 5240>>, <<52, 5260>>,
      <<56, 5280>>, <<60, 5300>>, <<64, 5320>>, <<100, 5500>>, <<104, 5520>>,
      <<108, 5540>>, <<112, 5560>>, <<116, 5580>>, <<120, 5600>>,
      <<124, 5620>>, <<128, 5640>>, <<132, 5660>>, <<136, 5680>>,
      <<140, 5700>>,
      <<149, 5745>>, <<153, 5765>>, <<157, 5785>>, <<161, 5805>> }

\* FREQ_TO_CH = {v: k for k, v in CH_TO_FREQ.items()}: its keys, and the lookup.
FREQ_TO_CH_keys == { p[2] : p \in CH_TO_FREQ }

FREQ_TO_CH(freq) == (CHOOSE p \in CH_TO_FREQ : p[2] = freq)[1]

\* FREQ_TO_CH[freq] raises KeyError for a key the table does not hold.
map_freq_to_channel_raises(freq) == freq \notin FREQ_TO_CH_keys

map_freq_to_channel(freq) == FREQ_TO_CH(freq)

\* Python's != and == on the values a frequency attribute holds (int or nan).
PyNe(a, b) == a = NaN \/ b = NaN \/ a # b

PyEq(a, b) == ~PyNe(a, b)

\* ------------------------------------------------------------------ codec
\* A message is a Python dict: here a sequence of <<key, value>> pairs in
\* insertion order, the keys "a_id" and "freq", the values integers, None or
\* True.  Bytes are the integers 0..255.
PyTrue == -3                     \* Python True (JSON true)

Dict(a_id, freq) == << <<"a_id", a_id>>, <<"freq", freq>> >>

\* The UTF-8 bytes of the two keys.
KeyBytes(k) ==
    IF k = "a_id" THEN <<97, 95, 105, 100>> ELSE <<102, 114, 101, 113>>

\* msgpack.packb of one value: nil, true, positive fixint, uint 8, uint 16,
\* uint 32 (big-endian).
pack_value(v) ==
    IF v = None THEN <<192>>
    ELSE IF v = PyTrue THEN <<195>>
    ELSE IF v <= 127 THEN <<v>>
    ELSE IF v <= 255 THEN <<204, v>>
    ELSE IF v <= 65535 THEN <<205, v \div 256, v % 256>>
    ELSE <<206, v \div 16777216, (v \div 65536) % 256, (v \div 256) % 256,
           v % 256>>

\* msgpack.packb of a key: fixstr.
pack_key(k) == <<160 + Len(KeyBytes(k))>> \o KeyBytes(k)

RECURSIVE pack_entries(_)
pack_entries(d) ==
    IF d = <<>> THEN <<>>
    ELSE pack_key(d[1][1]) \o pack_value(d[1][2]) \o pack_entries(Tail(d))

\* msgpack.packb(data) of server.py:155: fixmap of the dict's entries.
packb(d) == <<128 + Len(d)>> \o pack_entries(d)

\* The decimal ASCII digits of a length.
RECURSIVE Digits(_)
Digits(n) ==
    IF n < 10 THEN <<48 + n>> ELSE Digits(n \div 10) \o <<48 + (n % 10)>>

\* netstring encode of server.py:156: b"<length>:<payload>,".
encode(payload) == Digits(Len(payload)) \o <<58>> \o payload \o <<44>>

\* The value of a run of decimal digits.
RECURSIVE DigitsValue(_)
DigitsValue(ds) ==
    IF ds = <<>> THEN 0
    ELSE 10 * DigitsValue(SubSeq(ds, 1, Len(ds) - 1)) + (ds[Len(ds)] - 48)

\* netstring decode of client.py:90: the payload of one whole frame; it
\* raises when there is no length prefix, when the declared length does not
\* match the bytes, or when the terminator is missing.
decode(frame) ==
    LET colons == { i \in DOMAIN frame : frame[i] = 58 }
    IN  IF colons = {} THEN [ok |-> FALSE, data |-> <<>>]
        ELSE LET c == CHOOSE i \in colons : \A j \in colons : i <= j
                 ds == SubSeq(frame, 1, c - 1)
             IN  IF \/ ds = <<>>
                    \/ \E i \in DOMAIN ds : ds[i] \notin 48..57
                    \/ Len(frame) # c + DigitsValue(ds) + 1
                    \/ frame[Len(frame)] # 44
                 THEN [ok |-> FALSE, data |-> <<>>]
                 ELSE [ok |-> TRUE,
                       data |-> SubSeq(frame, c + 1, Len(frame) - 1)]

\* msgpack.unpackb of one value at position i of the data: the value and
\* the position after it, or a failure (the data ends early, or the byte
\* begins no value).
unpack_value(data, i) ==
    LET Fail == [ok |-> FALSE, v |-> None, next |-> i]
        b == data[i]
    IN  IF i > Len(data) THEN Fail
        ELSE IF b <= 127 THEN [ok |-> TRUE, v |-> b, next |-> i + 1]
        ELSE IF b = 192 THEN [ok |-> TRUE, v |-> None, next |-> i + 1]
        ELSE IF b = 195 THEN [ok |-> TRUE, v |-> PyTrue, next |-> i + 1]
        ELSE IF b = 204 /\ i + 1 <= Len(data)
             THEN [ok |-> TRUE, v |-> data[i + 1], next |-> i + 2]
        ELSE IF b = 205 /\ i + 2 <= Len(data)
             THEN [ok |-> TRUE, v |-> 256 * data[i + 1] + data[i + 2],
                   next |-> i + 3]
        ELSE IF b = 206 /\ i + 4 <= Len(data)
             THEN [ok |-> TRUE,
                   v |-> 16777216 * data[i + 1] + 65536 * data[i + 2]
                             + 256 * data[i + 3] + data[i + 4],
                   next |-> i + 5]
        ELSE Fail

\* msgpack.unpackb of n map entries from position i: the dict read (keys as
\* their bytes), or a failure.
RECURSIVE unpack_entries(_, _, _, _)
unpack_entries(data, i, n, acc) ==
    IF n = 0
    THEN [ok |-> i = Len(data) + 1, d |-> acc]
    ELSE IF i > Len(data) \/ data[i] \notin 160..191
              \/ i + (data[i] - 160) > Len(data)
    THEN [ok |-> FALSE, d |-> acc]
    ELSE LET klen == data[i] - 160
             key == SubSeq(data, i + 1, i + klen)
             val == unpack_value(data, i + klen + 1)
         IN  IF ~val.ok THEN [ok |-> FALSE, d |-> acc]
             ELSE unpack_entries(data, val.next, n - 1,
                                 Append(acc, <<key, val.v>>))

\* msgpack.unpackb(data, raw=False) of client.py:101, for a fixmap with
\* string keys; it raises on bytes that are no such map, on data that ends
\* early and on bytes left over.
unpackb(data) ==
    IF data = <<>> \/ data[1] \notin 128..143
    THEN [ok |-> FALSE, d |-> <<>>]
    ELSE unpack_entries(data, 2, data[1] - 128, <<>>)

\* dict.get(key): the value of the last entry with that key, None without one.
DictGet(d, k) ==
    LET hits == { i \in DOMAIN d : d[i][1] = KeyBytes(k) }
    IN  IF hits = {} THEN None
        ELSE d[CHOOSE i \in hits : \A j \in hits : j <= i][2]

\* The payload decoding applied to the bytes as received, frame and all.
ReceivedUnframed(frame) ==
    LET unpacked_data == unpackb(frame)
    IN  IF unpacked_data.ok
        THEN [ok |-> TRUE,
              a_id |-> DictGet(unpacked_data.d, "a_id"),
              freq |-> DictGet(unpacked_data.d, "freq")]
        ELSE [ok |-> FALSE, a_id |-> None, freq |-> None]

\* What receive_messages reads from one frame (lines 90, 101-103, 108):
\* whether both decodings went through, and the "a_id" and "freq" it gets.
Received(frame) ==
    LET data == decode(frame)
        unpacked_data == unpackb(data.data)
    IN  IF data.ok /\ unpacked_data.ok
        THEN [ok |-> TRUE,
              a_id |-> DictGet(unpacked_data.d, "a_id"),
              freq |-> DictGet(unpacked_data.d, "freq")]
        ELSE [ok |-> FALSE, a_id |-> None, freq |-> None]

\* ------------------------------------------------------------ input sets
\* Frequencies a switch_frequency message carries: two allow-listed 5 GHz
\* ones, a DFS one and one the table does not know.
MsgFreqs == {5180, 5805, 5260, 5999}

\* Frequencies the trigger source writes.
TriggerFreqs == {5805, 5999}

\* What get_mesh_freq() reports: a live frequency, or nan when none is read.
LiveFreqs == {5180, 5805, NaN}

\* Every frequency of the table, and three the table does not hold.
AllFreqs == FREQ_TO_CH_keys \cup {5999, 2484, None}

\* The messages the agent may be sent: switch_frequency with a frequency,
\* and one of the actions the agent ignores.
Messages ==
    [a_id : {switch_frequency_id}, freq : MsgFreqs]
        \cup {[a_id |-> estimation_request_id, freq |-> None]}

\* The frame of a message, as send_data_clients builds it.
FrameOf(m) == encode(packb(Dict(m.a_id, m.freq)))

\* recv returning b"": the orchestrator has closed the connection.
Eof == <<>>

\* A frame whose declared length (16) is not the length of its payload (15).
BadLengthFrame ==
    <<49, 54, 58>> \o packb(Dict(switch_frequency_id, 5805)) \o <<44>>

\* A well-framed payload that is a map cut short.
BadPayloadFrame ==
    encode(SubSeq(packb(Dict(switch_frequency_id, 5805)), 1, 10))

\* A well-formed message whose action id is not in id_to_action.
unknown_action_id == 9

UnknownActionFrame == FrameOf([a_id |-> unknown_action_id, freq |-> 5805])

\* What recv may return to the agent.
Frames ==
    { FrameOf(m) : m \in Messages }
        \cup {Eof, BadLengthFrame, BadPayloadFrame, UnknownActionFrame}

\* What the trigger file may hold: {"freq": <int>}, {"freq": null},
\* {"freq": "<text>"}, an object without "freq", text that is not JSON,
\* nothing (no file), or {"freq": true}.
FileContents ==
    [kind : {"int"}, freq : TriggerFreqs]
        \cup [kind : {"null", "str", "nokey", "badjson", "missing"}, freq : {0}]
        \cup {[kind |-> "bool", freq |-> PyTrue]}

\* The connection the modelled agent is accepted as: the second one, after
\* a peer that is not modelled.
AgentConn == 2


\* ------------------------------------------------------------------ state
VARIABLES
    \* orchestrator (JammingServer)
    srv_running,            \* self.running
    clients,                \* self.clients, a list of connection ids
    srv_target_frequency,   \* self.target_frequency
    json_file,              \* content of args.json_file
    poll_pc,                \* position of run_server_thread
    iter_idx,               \* index of the list iterator of send_data_clients
    accepted,               \* connections accepted so far (the next id)
    bc_state,               \* history: "none", "running", "done", "aborted"
    bc_start,               \* history: registry when the broadcast started
    bc_got,                 \* history: connections sent to in this broadcast
    bc_failed,              \* history: connections whose send raised
    bc_count,               \* history: broadcasts since the last trigger write
    main_pc,                \* position of the thread that called start()
    listening,              \* self.serversocket is open
    conn_closed,            \* connections whose JammingClientTwin was stopped
    interrupted,            \* history: signal_handler has run
    \* agent (JammingDetectionClient)
    running,                \* self.running
    lpc,                    \* position of run(), then of listen_thread
    number_retries,         \* connect_to_orchestrator's number_retries
    sleep_start,            \* when connect_to_orchestrator began to sleep
    stop_pc,                \* position of stop(): "none", "joining", "returned"
    recv_wakes,             \* whether closing the socket ends a blocked recv
    current_frequency,      \* self.current_frequency
    target_frequency,       \* self.target_frequency
    switching_event,        \* self.switching_event.is_set()
    time_last_scan,         \* self.time_last_scan
    time_last_switch,       \* self.time_last_switch
    stack,                  \* call stack of listen_thread below receive_messages
    inbox,                  \* frames sent to the agent and not yet read
    attempts,               \* history: switch attempts since the last message
    last,                   \* history: the last operation and its inputs
    \* one frame through send_data_clients and receive_messages
    cd_pc,                  \* "idle", "sent", "got"
    cd_msg,                 \* the dict given to send_data_clients
    cd_wire,                \* the bytes given to sendall
    cd_got,                 \* what the receiver read from them
    \* environment
    now                     \* time.time()

shut_vars == <<main_pc, listening, conn_closed, interrupted>>

srv_vars == <<srv_running, clients, srv_target_frequency, json_file, poll_pc,
              iter_idx, accepted, bc_state, bc_start, bc_got, bc_failed,
              bc_count, shut_vars>>

conn_vars == <<number_retries, sleep_start>>

stop_vars == <<stop_pc, recv_wakes>>

agent_vars == <<running, lpc, current_frequency, target_frequency,
                switching_event, time_last_scan, time_last_switch, stack,
                attempts, last, conn_vars, stop_vars>>

codec_vars == <<cd_pc, cd_msg, cd_wire, cd_got>>

vars == <<srv_vars, agent_vars, codec_vars, inbox, now>>

NoOp == [op |-> "none", a_id |-> 0, freq |-> NaN, before |-> NaN]

Null == [kind |-> "null", freq |-> 0]

\* JammingServer.__init__ and JammingDetectionClient.__init__
Init ==
    /\ srv_running = FALSE
    /\ clients = <<>>
    /\ srv_target_frequency \in LiveFreqs
    /\ json_file = Null
    /\ poll_pc = "init"
    /\ iter_idx = 0
    /\ accepted = 0
    /\ bc_state = "none"
    /\ bc_start = <<>>
    /\ bc_got = {}
    /\ bc_failed = {}
    /\ bc_count = 0
    /\ main_pc = "init"
    /\ listening = FALSE
    /\ conn_closed = {}
    /\ interrupted = FALSE
    /\ running = FALSE
    /\ lpc = "init"
    /\ number_retries = 0
    /\ sleep_start = 0
    /\ stop_pc = "none"
    /\ recv_wakes = FALSE
    /\ current_frequency \in LiveFreqs
    /\ target_frequency = NaN
    /\ switching_event = FALSE
    /\ time_last_scan = 0
    /\ time_last_switch = 0
    /\ stack = <<>>
    /\ inbox = <<>>
    /\ attempts = 0
    /\ last = NoOp
    /\ cd_pc = "idle"
    /\ cd_msg = <<>>
    /\ cd_wire = <<>>
    /\ cd_got = [ok |-> FALSE, a_id |-> None, freq |-> None]
    /\ now = 0

\* ------------------------------------------------------------------ agent

\* update_target_freq: the target after the call, and whether the lookup raised.
update_target_freq_unchecked(target, received_target_freq) ==
    IF map_freq_to_channel_raises(received_target_freq)
    THEN [target |-> target, raised |-> TRUE]
    ELSE [target |-> received_target_freq, raised |-> FALSE]

update_target_freq_freq_as_channel(target, received_target_freq) ==
    IF map_freq_to_channel_raises(received_target_freq)
    THEN [target |-> target, raised |-> TRUE]
    ELSE IF received_target_freq \in VALID_CHANNELS
         THEN [target |-> received_target_freq, raised |-> FALSE]
         ELSE [target |-> target, raised |-> FALSE]

update_target_freq(target, received_target_freq) ==
    IF map_freq_to_channel_raises(received_target_freq)
    THEN [target |-> target, raised |-> TRUE]
    ELSE IF map_freq_to_channel(received_target_freq) \in VALID_CHANNELS
         THEN [target |-> received_target_freq, raised |-> FALSE]
         ELSE [target |-> target, raised |-> FALSE]

SwitchFrame ==
    [fn |-> "switch_frequency", pc |-> "actuate",
     current_time |-> 0, entered |-> 0, calls |-> 0]

\* entered and calls are history: the time of entry into the recovery loop and
\* the number of switch_frequency() calls this entry has made.
RecoverFrame(t) ==
    [fn |-> "recovering_switch_error", pc |-> "wait",
     current_time |-> 0, entered |-> t, calls |-> 0]

Top(stk) == stk[Len(stk)]

Pop(stk) == SubSeq(stk, 1, Len(stk) - 1)

\* The frames a returning callee resumes, innermost first: a recovery loop
\* resumed after its switch_frequency() call stores its current_time and
\* breaks; a switch_frequency resumed after recovering_switch_error() returns.
RECURSIVE Unwind(_, _)
Unwind(stk, tls) ==
    IF stk = <<>> THEN tls
    ELSE IF Top(stk).fn = "recovering_switch_error"
         THEN Unwind(Pop(stk), Top(stk).current_time)
         ELSE Unwind(Pop(stk), tls)

\* `continue` (lines 117, 121) and the end of the loop body: the loop
\* condition (line 86) decides whether the listen thread reads again.
LoopAgainBreaks(r) == "exit"

LoopAgain(r) == IF r THEN "recv" ELSE "exit"

\* The top frame returns; control unwinds to receive_messages, which clears
\* the latch and loops.
ReturnToReceiveLatched ==
    /\ time_last_scan' = Unwind(Pop(stack), time_last_scan)
    /\ stack' = <<>>
    /\ UNCHANGED switching_event
    /\ lpc' = LoopAgain(running)

ReturnToReceive ==
    /\ time_last_scan' = Unwind(Pop(stack), time_last_scan)
    /\ stack' = <<>>
    /\ switching_event' = FALSE
    /\ lpc' = LoopAgain(running)

\* The guard of the receive loop.
MustSwitch(cur, tgt, latch) == PyNe(cur, tgt) /\ ~latch

\* JammingDetectionClient.run up to the first connection attempt.
run ==
    /\ lpc = "init"
    /\ running' = TRUE
    /\ lpc' = "connect"
    /\ last' = [NoOp EXCEPT !.op = "run"]
    /\ UNCHANGED <<current_frequency, target_frequency, switching_event,
                   time_last_scan, time_last_switch, stack, attempts>>
    /\ UNCHANGED <<conn_vars, stop_vars>>
    /\ UNCHANGED <<srv_vars, codec_vars, inbox, now>>

\* connect_to_orchestrator, lines 69-78: one pass of the loop up to the
\* sleep.  A connection that is made breaks the loop and run() starts
\* listen_thread, which enters its first read; a refused one is counted, and
\* the last one allowed exits the process.
connect_attempt ==
    /\ lpc = "connect"
    /\ number_retries < max_retries
    /\ \E refused \in BOOLEAN :
         IF ~refused
         THEN /\ lpc' = "recv"
              /\ number_retries' = 0
              /\ sleep_start' = 0
              /\ last' = [NoOp EXCEPT !.op = "connected"]
         ELSE /\ number_retries' = number_retries + 1
              /\ last' = [NoOp EXCEPT !.op = "refused"]
              /\ IF number_retries + 1 = max_retries
                 THEN /\ lpc' = "fatal"
                      /\ UNCHANGED sleep_start
                 ELSE /\ lpc' = "connect_sleep"
                      /\ sleep_start' = now
    /\ UNCHANGED <<running, current_frequency, target_frequency,
                   switching_event, time_last_scan, time_last_switch, stack,
                   attempts, stop_vars>>
    /\ UNCHANGED <<srv_vars, codec_vars, inbox, now>>

\* time.sleep(3) of line 80 has ended.
SleepOverAtOnce(t, since) == t - since >= 0

SleepOver(t, since) == t - since >= connect_sleep

connect_wake ==
    /\ lpc = "connect_sleep"
    /\ SleepOver(now, sleep_start)
    /\ lpc' = "connect"
    /\ UNCHANGED <<running, current_frequency, target_frequency,
                   switching_event, time_last_scan, time_last_switch, stack,
                   attempts, last, conn_vars, stop_vars>>
    /\ UNCHANGED <<srv_vars, codec_vars, inbox, now>>

\* Lines 90-97: decode raised, or gave no data: the loop breaks.
FramingFailedNever(data) == FALSE

FramingFailed(data) == ~data.ok \/ data.data = <<>>

\* receive_messages, lines 102-113: the handling of an unpacked message.  A
\* message that is not switch_frequency, or whose frequency makes
\* update_target_freq raise (line 119), changes nothing.
handle_message(m) ==
    LET u == update_target_freq(target_frequency, m.freq)
    IN  /\ last' = [op |-> "receive", a_id |-> m.a_id, freq |-> m.freq,
                    before |-> target_frequency]
        /\ IF m.a_id # switch_frequency_id \/ u.raised
           THEN /\ attempts' = 0
                /\ lpc' = LoopAgain(running)
                /\ UNCHANGED <<target_frequency, switching_event, stack>>
           ELSE /\ target_frequency' = u.target
                /\ IF MustSwitch(current_frequency, u.target, switching_event)
                   THEN /\ switching_event' = TRUE
                        /\ stack' = <<SwitchFrame>>
                        /\ lpc' = "switch"
                        /\ attempts' = 1
                   ELSE /\ attempts' = 0
                        /\ lpc' = LoopAgain(running)
                        /\ UNCHANGED <<switching_event, stack>>

\* self.socket.recv of line 90 on a stream socket: the bytes that were sent
\* first and not yet read.
recv_newest(stream) == stream[Len(stream)]

recv(stream) == Head(stream)

\* One iteration of receive_messages that reads a frame: a framing failure
\* or an empty read breaks the loop (lines 91-97), a payload failure
\* continues it (lines 115-121).
receive_messages ==
    /\ lpc = "recv"
    /\ ~(stop_pc # "none" /\ recv_wakes)
    /\ inbox # <<>>
    /\ LET frame == recv(inbox)
           data == decode(frame)
           unpacked_data == unpackb(data.data)
       IN  /\ inbox' = Tail(inbox)
           /\ IF FramingFailed(data)
              THEN /\ lpc' = "exit"
                   /\ attempts' = 0
                   /\ last' = [NoOp EXCEPT !.op = IF frame = Eof
                                                  THEN "receive_eof"
                                                  ELSE "receive_framing_error"]
                   /\ UNCHANGED <<target_frequency, switching_event, stack>>
              ELSE IF ~unpacked_data.ok
                   THEN /\ lpc' = LoopAgain(running)
                        /\ attempts' = 0
                        /\ last' = [NoOp EXCEPT
                                        !.op = "receive_payload_error"]
                        /\ UNCHANGED <<target_frequency, switching_event,
                                       stack>>
                   ELSE handle_message(Received(frame))
    /\ UNCHANGED <<running, current_frequency, time_last_scan,
                   time_last_switch, conn_vars, stop_vars>>
    /\ UNCHANGED <<srv_vars, codec_vars, now>>

\* A read blocked in recv when stop() closed the socket, on a platform where
\* the close ends the read: recv raises, and the loop breaks (lines 94-97).
receive_exit ==
    /\ lpc = "recv"
    /\ stop_pc # "none"
    /\ recv_wakes
    /\ lpc' = "exit"
    /\ last' = [NoOp EXCEPT !.op = "receive_exit"]
    /\ UNCHANGED <<running, current_frequency, target_frequency,
                   switching_event, time_last_scan, time_last_switch, stack,
                   attempts, conn_vars, stop_vars>>
    /\ UNCHANGED <<srv_vars, codec_vars, inbox, now>>

\* JammingDetectionClient.stop, lines 214-220 up to the join: called by the
\* main thread once run() has returned, and again after it has returned.
\* Closing the socket of a thread blocked in recv may or may not end that
\* recv; a listen thread that has ended is not joined.
stop ==
    /\ lpc \in {"recv", "switch", "exit"}
    /\ stop_pc \in {"none", "returned"}
    /\ running' = FALSE
    /\ stop_pc' = IF lpc = "exit" THEN "returned" ELSE "joining"
    /\ IF lpc = "recv"
       THEN \E w \in BOOLEAN : recv_wakes' = w
       ELSE UNCHANGED recv_wakes
    /\ UNCHANGED <<lpc, current_frequency, target_frequency, switching_event,
                   time_last_scan, time_last_switch, stack, attempts, last,
                   conn_vars>>
    /\ UNCHANGED <<srv_vars, codec_vars, inbox, now>>

\* stop, line 220: listen_thread.join() returns once the thread has ended.
stop_return ==
    /\ stop_pc = "joining"
    /\ lpc = "exit"
    /\ stop_pc' = "returned"
    /\ UNCHANGED <<running, lpc, current_frequency, target_frequency,
                   switching_event, time_last_scan, time_last_switch, stack,
                   attempts, last, conn_vars, recv_wakes>>
    /\ UNCHANGED <<srv_vars, codec_vars, inbox, now>>


\* The outcome check of switch_frequency (line 171).
SwitchFailedNever(live, target) == FALSE

SwitchFailedOnce(live, target) == PyNe(live, target) /\ Len(stack) = 1

SwitchFailed(live, target) == PyNe(live, target)

\* The timer check of the recovery loop (line 187).
RecoveryDueAtOnce(current_time, tls) == current_time - tls >= 0

RecoveryDue(current_time, tls) ==
    current_time - tls >= periodic_recovery_switch

\* switch_frequency calls recovering_switch_error() (line 173): the caller
\* waits at the call, its actuator sequence over, and the callee's frame is
\* pushed.
EnterRecoveryMidSequence(stk, t) == Append(stk, RecoverFrame(t))

EnterRecovery(stk, t) ==
    Append([stk EXCEPT ![Len(stk)].pc = "recovering"], RecoverFrame(t))

\* switch_frequency, lines 133-167: the actuator sequence.  A command, the
\* removal of the interface file or the restart may raise (caught at line
\* 176); read_file may return None (return at line 155).
actuate ==
    /\ stack # <<>>
    /\ Top(stack).fn = "switch_frequency"
    /\ Top(stack).pc = "actuate"
    /\ \E outcome \in {"done", "raise", "conf_none"} :
         /\ last' = [NoOp EXCEPT !.op = "actuate_" \o outcome,
                                 !.before = target_frequency]
         /\ IF outcome = "done"
            THEN /\ stack' = [stack EXCEPT ![Len(stack)].pc = "validate"]
                 /\ UNCHANGED <<time_last_scan, switching_event, lpc>>
            ELSE ReturnToReceive
    /\ UNCHANGED <<running, current_frequency, target_frequency,
                   time_last_switch, attempts>>
    /\ UNCHANGED <<conn_vars, stop_vars>>
    /\ UNCHANGED <<srv_vars, codec_vars, inbox, now>>

\* switch_frequency, lines 170-175: re-query the live frequency and compare;
\* reset() on success, recovering_switch_error() (line 183) on failure.
validate ==
    /\ stack # <<>>
    /\ Top(stack).fn = "switch_frequency"
    /\ Top(stack).pc = "validate"
    /\ \E live \in LiveFreqs :
         /\ current_frequency' = live
         /\ last' = [op |-> "validate", a_id |-> 0, freq |-> live,
                     before |-> target_frequency]
         /\ IF SwitchFailed(live, target_frequency)
            THEN /\ time_last_scan' = now
                 /\ stack' = EnterRecovery(stack, now)
                 /\ UNCHANGED <<time_last_switch, switching_event, lpc>>
            ELSE /\ time_last_switch' = 0
                 /\ ReturnToReceive
    /\ UNCHANGED <<running, target_frequency, attempts>>
    /\ UNCHANGED <<conn_vars, stop_vars>>
    /\ UNCHANGED <<srv_vars, codec_vars, inbox, now>>

\* recovering_switch_error, lines 184-190: the timer has ended, so call
\* switch_frequency() again.
recovering_retry ==
    /\ stack # <<>>
    /\ Top(stack).fn = "recovering_switch_error"
    /\ Top(stack).pc = "wait"
    /\ running
    /\ RecoveryDue(now, time_last_scan)
    /\ Len(stack) + 1 <= MaxDepth
    /\ stack' = Append([stack EXCEPT ![Len(stack)].pc = "called",
                                     ![Len(stack)].current_time = now,
                                     ![Len(stack)].calls = @ + 1],
                       SwitchFrame)
    /\ attempts' = attempts + 1
    /\ last' = [NoOp EXCEPT !.op = "recovering_retry",
                            !.before = target_frequency]
    /\ UNCHANGED <<running, lpc, current_frequency, target_frequency,
                   switching_event, time_last_scan, time_last_switch>>
    /\ UNCHANGED <<conn_vars, stop_vars>>
    /\ UNCHANGED <<srv_vars, codec_vars, inbox, now>>

\* recovering_switch_error, line 184: the loop ends without a retry once
\* stop() has cleared self.running.
recovering_exit ==
    /\ stack # <<>>
    /\ Top(stack).fn = "recovering_switch_error"
    /\ Top(stack).pc = "wait"
    /\ ~running
    /\ ReturnToReceive
    /\ last' = [NoOp EXCEPT !.op = "recovering_exit"]
    /\ UNCHANGED <<running, current_frequency, target_frequency,
                   time_last_switch, attempts>>
    /\ UNCHANGED <<conn_vars, stop_vars>>
    /\ UNCHANGED <<srv_vars, codec_vars, inbox, now>>

\* ------------------------------------------------------------ environment

\* time.time() advances.
Tick ==
    /\ now + TickStep <= MaxTime
    /\ now' = now + TickStep
    /\ UNCHANGED <<srv_vars, agent_vars, codec_vars, inbox>>

\* A frame arrives on the agent's socket.
Deliver ==
    /\ lpc \in {"recv", "switch"}
    /\ Len(inbox) < MaxInbox
    /\ \E frame \in Frames : inbox' = Append(inbox, frame)
    /\ UNCHANGED <<srv_vars, agent_vars, codec_vars, now>>

\* ------------------------------------------------------------ orchestrator

Range(seq) == { seq[i] : i \in DOMAIN seq }

\* list.remove(x): the list without its first item equal to x.
ListRemove(seq, x) ==
    LET i == CHOOSE j \in DOMAIN seq :
                 seq[j] = x /\ \A k \in 1..(j - 1) : seq[k] # x
    IN  SubSeq(seq, 1, i - 1) \o SubSeq(seq, i + 1, Len(seq))

\* JammingServer.start up to the accept loop.
start ==
    /\ ~srv_running
    /\ poll_pc = "init"
    /\ main_pc = "init"
    /\ srv_running' = TRUE
    /\ poll_pc' = "sleep"
    /\ main_pc' = "accept"
    /\ listening' = TRUE
    /\ UNCHANGED <<clients, srv_target_frequency, json_file, iter_idx,
                   accepted, bc_state, bc_start, bc_got, bc_failed, bc_count,
                   conn_closed, interrupted>>
    /\ UNCHANGED <<agent_vars, codec_vars, inbox, now>>

\* One iteration of the accept loop of start(): with `linked`, connection
\* AgentConn is the modelled agent's and exists once the agent has connected.
accept_sends_target(linked) ==
    /\ main_pc = "accept"
    /\ srv_running
    /\ accepted < (IF linked THEN MaxLinked ELSE MaxClients)
    /\ (linked /\ accepted + 1 = AgentConn) => lpc \in {"recv", "switch"}
    /\ accepted' = accepted + 1
    /\ clients' = Append(clients, accepted + 1)
    /\ inbox' = IF linked /\ accepted + 1 = AgentConn /\ Len(inbox) < MaxInbox
                THEN Append(inbox, encode(packb(Dict(switch_frequency_id,
                                                      srv_target_frequency))))
                ELSE inbox
    /\ UNCHANGED <<srv_running, srv_target_frequency, json_file, poll_pc,
                   iter_idx, bc_state, bc_start, bc_got, bc_failed, bc_count,
                   shut_vars>>
    /\ UNCHANGED <<agent_vars, codec_vars, now>>

accept(linked) ==
    /\ main_pc = "accept"
    /\ srv_running
    /\ accepted < (IF linked THEN MaxLinked ELSE MaxClients)
    /\ (linked /\ accepted + 1 = AgentConn) => lpc \in {"recv", "switch"}
    /\ accepted' = accepted + 1
    /\ clients' = Append(clients, accepted + 1)
    /\ UNCHANGED <<srv_running, srv_target_frequency, json_file, poll_pc,
                   iter_idx, bc_state, bc_start, bc_got, bc_failed, bc_count,
                   shut_vars>>
    /\ UNCHANGED <<agent_vars, codec_vars, inbox, now>>

\* check_frequency, lines 125-134: open and load the file, and on an integer
\* set the target and enter send_switch_frequency_message.  A missing file or
\* invalid JSON raises into the handlers of lines 140-143.
\* isinstance(data['freq'], int) of line 130: True is an int.
isinstance_int(content) == content.kind \in {"int", "bool"}

poll_read ==
    /\ srv_running
    /\ poll_pc = "sleep"
    /\ IF json_file.kind \in {"missing", "badjson"}
       THEN UNCHANGED <<srv_target_frequency, poll_pc, iter_idx, bc_state,
                        bc_start, bc_got, bc_failed, bc_count>>
       ELSE IF isinstance_int(json_file)
       THEN /\ srv_target_frequency' = json_file.freq
            /\ poll_pc' = "send"
            /\ iter_idx' = 0
            /\ bc_state' = "running"
            /\ bc_start' = clients
            /\ bc_got' = {}
            /\ bc_failed' = {}
            /\ bc_count' = IF bc_count < MaxBroadcasts
                           THEN bc_count + 1 ELSE bc_count
       ELSE /\ poll_pc' = "reset"
            /\ UNCHANGED <<srv_target_frequency, iter_idx, bc_state, bc_start,
                           bc_got, bc_failed, bc_count>>
    /\ UNCHANGED <<srv_running, clients, json_file, accepted, shut_vars>>
    /\ UNCHANGED <<agent_vars, codec_vars, inbox, now>>

\* send_data_clients, lines 153-160: one step of `for client in self.clients`.
\* The list iterator holds an index: it ends when the index reaches the
\* length of the list, else yields the item there and advances.  packb or
\* sendall may succeed, raise BrokenPipeError (caught at line 158) or raise
\* another exception, which leaves check_frequency through line 144; on a
\* socket that JammingClientTwin.stop has closed, sendall raises OSError.
poll_send(linked) ==
    /\ poll_pc = "send"
    /\ IF iter_idx >= Len(clients)
       THEN /\ poll_pc' = "reset"
            /\ bc_state' = "done"
            /\ UNCHANGED <<clients, iter_idx, bc_got, bc_failed, inbox>>
       ELSE LET client == clients[iter_idx + 1] IN
            \E outcome \in {"ok", "broken_pipe", "error"} :
              /\ client \in conn_closed => outcome = "error"
              /\ (linked /\ client = AgentConn /\ outcome = "ok")
                     => Len(inbox) < MaxInbox
              /\ inbox' =
                     IF linked /\ client = AgentConn /\ outcome = "ok"
                     THEN Append(inbox,
                                 encode(packb(Dict(switch_frequency_id,
                                                   srv_target_frequency))))
                     ELSE inbox
              /\ bc_got' = IF outcome = "ok" THEN bc_got \cup {client}
                                             ELSE bc_got
              /\ bc_failed' = IF outcome = "ok" THEN bc_failed
                                                ELSE bc_failed \cup {client}
              /\ clients' = IF outcome = "broken_pipe"
                            THEN ListRemove(clients, client) ELSE clients
              /\ IF outcome = "error"
                 THEN /\ poll_pc' = "sleep"
                      /\ bc_state' = "aborted"
                      /\ UNCHANGED iter_idx
                 ELSE /\ iter_idx' = iter_idx + 1
                      /\ UNCHANGED <<poll_pc, bc_state>>
    /\ UNCHANGED <<srv_running, srv_target_frequency, json_file, accepted,
                   bc_start, bc_count, shut_vars>>
    /\ UNCHANGED <<agent_vars, codec_vars, now>>

\* check_frequency, line 137: json.dump({"freq": None}, ...).
poll_reset ==
    /\ poll_pc = "reset"
    /\ json_file' = Null
    /\ poll_pc' = "sleep"
    /\ UNCHANGED <<srv_running, clients, srv_target_frequency, iter_idx,
                   accepted, bc_state, bc_start, bc_got, bc_failed, bc_count,
                   shut_vars>>
    /\ UNCHANGED <<agent_vars, codec_vars, inbox, now>>

\* run_server, line 113: the poll loop ends once self.running is False.
poll_exit ==
    /\ poll_pc = "sleep"
    /\ ~srv_running
    /\ main_pc # "init"
    /\ poll_pc' = "exited"
    /\ UNCHANGED <<srv_running, clients, srv_target_frequency, json_file,
                   iter_idx, accepted, bc_state, bc_start, bc_got, bc_failed,
                   bc_count, shut_vars>>
    /\ UNCHANGED <<agent_vars, codec_vars, inbox, now>>

\* JammingServer.stop, lines 99-105, up to the join: clear the flag and
\* close the listening socket.  The registered connections are not touched.
stop_body ==
    /\ srv_running' = FALSE
    /\ listening' = FALSE
    /\ main_pc' = "joining"
    /\ UNCHANGED <<clients, conn_closed>>

\* JammingServer.stop called on a serving orchestrator.
server_stop ==
    /\ main_pc = "accept"
    /\ stop_body
    /\ UNCHANGED <<srv_target_frequency, json_file, poll_pc, iter_idx,
                   accepted, bc_state, bc_start, bc_got, bc_failed, bc_count,
                   interrupted>>
    /\ UNCHANGED <<agent_vars, codec_vars, inbox, now>>

\* JammingServer.stop, lines 106-107: run_server_thread.join() returns once
\* the poll loop has ended.
server_stop_return ==
    /\ main_pc = "joining"
    /\ poll_pc = "exited"
    /\ main_pc' = "stopped"
    /\ UNCHANGED <<srv_running, clients, srv_target_frequency, json_file,
                   poll_pc, iter_idx, accepted, bc_state, bc_start, bc_got,
                   bc_failed, bc_count, listening, conn_closed, interrupted>>
    /\ UNCHANGED <<agent_vars, codec_vars, inbox, now>>

\* JammingServer.signal_handler, run by the main thread inside start(): with
\* connections registered it stops each JammingClientTwin and raises
\* SystemExit (lines 85-90), which ends the main thread and leaves the flag,
\* the listening socket and the non-daemon poll thread as they are; without
\* any it calls self.stop() (line 91).
signal_handler ==
    /\ main_pc = "accept"
    /\ interrupted' = TRUE
    /\ IF clients # <<>>
       THEN /\ conn_closed' = conn_closed \cup Range(clients)
            /\ main_pc' = "exited"
            /\ UNCHANGED <<srv_running, listening, clients>>
       ELSE stop_body
    /\ UNCHANGED <<srv_target_frequency, json_file, poll_pc, iter_idx,
                   accepted, bc_state, bc_start, bc_got, bc_failed, bc_count>>
    /\ UNCHANGED <<agent_vars, codec_vars, inbox, now>>

\* The trigger source writes the file.
TriggerWrite ==
    /\ \E c \in FileContents \ {Null} : json_file' = c
    /\ bc_count' = 0
    /\ UNCHANGED <<srv_running, clients, srv_target_frequency, poll_pc,
                   iter_idx, accepted, bc_state, bc_start, bc_got, bc_failed,
                   shut_vars>>
    /\ UNCHANGED <<agent_vars, codec_vars, inbox, now>>

OrchNext(linked) ==
    \/ start
    \/ accept(linked)
    \/ poll_read
    \/ poll_send(linked)
    \/ poll_reset
    \/ poll_exit
    \/ server_stop
    \/ server_stop_return
    \/ signal_handler

\* update_target_freq called on its own, with any argument.
update_call ==
    /\ \E f \in AllFreqs :
         /\ target_frequency' = update_target_freq(target_frequency, f).target
         /\ last' = [op |-> "update_target_freq", a_id |-> 0, freq |-> f,
                     before |-> target_frequency]
    /\ UNCHANGED <<running, lpc, current_frequency, switching_event,
                   time_last_scan, time_last_switch, stack, attempts>>
    /\ UNCHANGED <<conn_vars, stop_vars>>
    /\ UNCHANGED <<srv_vars, codec_vars, inbox, now>>

\* The well-formed messages: each of the five actions with a frequency, with
\* "freq": None, or without the key.
ActionIds == 0..4

CodecFreqs == {0, 127, 128, 255, 256, 2412, 5180, 5805, 65535, 65536, 70000}

CodecDicts ==
    { Dict(a, f) : a \in ActionIds, f \in CodecFreqs \cup {None} }
        \cup { << <<"a_id", a>> >> : a \in ActionIds }

\* send_data_clients, lines 155-157, for one connection: pack, frame, send.
codec_send ==
    /\ cd_pc = "idle"
    /\ \E data \in CodecDicts :
         /\ cd_msg' = data
         /\ cd_wire' = encode(packb(data))
    /\ cd_pc' = "sent"
    /\ UNCHANGED cd_got
    /\ UNCHANGED <<srv_vars, agent_vars, inbox, now>>

\* receive_messages, lines 90-108, on the bytes that were sent.
codec_recv ==
    /\ cd_pc = "sent"
    /\ cd_got' = Received(cd_wire)
    /\ cd_pc' = "got"
    /\ UNCHANGED <<cd_msg, cd_wire>>
    /\ UNCHANGED <<srv_vars, agent_vars, inbox, now>>

AgentNext ==
    \/ run
    \/ connect_attempt
    \/ connect_wake
    \/ receive_messages
    \/ receive_exit
    \/ stop
    \/ stop_return
    \/ actuate
    \/ validate
    \/ recovering_retry
    \/ recovering_exit

\* The agent alone, sent arbitrary frames; the orchestrator is not started.
InitAgent == Init /\ srv_target_frequency = NaN

SpecAgent == InitAgent /\ [][AgentNext \/ Deliver \/ Tick]_vars

\* The orchestrator alone, with peers that are not modelled.
InitOrchestrator == Init /\ current_frequency = NaN

SpecOrchestrator ==
    InitOrchestrator /\ [][OrchNext(FALSE) \/ TriggerWrite]_vars

\* update_target_freq as a function of the stored target and its argument.
SpecUpdate == InitAgent /\ [][update_call]_vars

\* One message through the codec, from send_data_clients to receive_messages.
SpecCodec == InitAgent /\ [][codec_send \/ codec_recv]_vars

\* Orchestrator, trigger source and one agent.
Next == OrchNext(TRUE) \/ TriggerWrite \/ AgentNext \/ Tick

Spec == Init /\ [][Next]_vars

\* The orchestrator and the agent under the conditions of a switch that has
\* to go through: the trigger source writes the allow-listed 5805 only; the
\* orchestrator is neither stopped nor interrupted and its sends to the
\* agent succeed (sends to the peer may fail); the agent is not stopped, its
\* connection attempt succeeds, its actuator does not raise and reads the
\* target back at the latest on the last attempt the stack bound allows.
\* The poll thread, the listen thread and the clock the recovery loop reads
\* are weakly fair.
conv_trigger ==
    /\ TriggerWrite
    /\ json_file' = [kind |-> "int", freq |-> 5805]

conv_send ==
    /\ poll_send(TRUE)
    /\ AgentConn \notin bc_failed'

conv_connect ==
    /\ connect_attempt
    /\ lpc' = "recv"

conv_actuate ==
    /\ actuate
    /\ last'.op = "actuate_done"

conv_validate ==
    /\ validate
    /\ Len(stack) >= MaxDepth => PyEq(current_frequency', target_frequency)

\* The clock, as the recovery loop reads it while it waits for its interval.
conv_tick ==
    /\ stack # <<>>
    /\ Top(stack).fn = "recovering_switch_error"
    /\ ~RecoveryDue(now, time_last_scan)
    /\ now' = now + TickStep
    /\ UNCHANGED <<srv_vars, agent_vars, codec_vars, inbox>>

PollThread == poll_read \/ conv_send \/ poll_reset

ListenThread ==
    \/ receive_messages
    \/ conv_actuate
    \/ conv_validate
    \/ recovering_retry

ConvNext ==
    \/ start
    \/ accept(TRUE)
    \/ conv_trigger
    \/ PollThread
    \/ run
    \/ conv_connect
    \/ ListenThread
    \/ conv_tick

\* The read of the listen thread, told by its effect on the connection:
\* recv (line 90) takes the frame at the head.  Under ConvNext these are the
\* steps of receive_messages and no others.
recv_returns ==
    /\ lpc = "recv"
    /\ inbox # <<>>
    /\ inbox' = Tail(inbox)

\* The steps of the listen thread inside switch_frequency and the recovery
\* loop.
SwitchThread == conv_actuate \/ conv_validate \/ recovering_retry

\* The listen thread is at one place at a time, so that its fairness is the
\* fairness of its read and of its switch steps.
SpecConverge ==
    /\ InitAgent
    /\ [][ConvNext]_vars
    /\ WF_vars(PollThread)
    /\ WF_inbox(recv_returns)
    /\ WF_vars(SwitchThread)
    /\ WF_vars(conv_tick)

\* Orchestrator, trigger source and one agent that connects at any time:
\* the trigger source writes integers; neither side is stopped or
\* interrupted and the agent's connection attempt succeeds; any send may
\* fail; the agent's actuator is the one of SpecConverge.
reg_trigger ==
    /\ TriggerWrite
    /\ json_file'.kind = "int"

RegNext ==
    \/ start
    \/ accept(TRUE)
    \/ reg_trigger
    \/ poll_read
    \/ poll_send(TRUE)
    \/ poll_reset
    \/ run
    \/ conv_connect
    \/ ListenThread
    \/ conv_tick

SpecRegister == Init /\ [][RegNext]_vars

\* ----------------------------------------------------------------- phases

\* SwitchState.phase, read off the listen thread's position.
Phase ==
    IF stack = <<>> THEN "Idle"
    ELSE IF Top(stack).fn = "switch_frequency" THEN "Switching"
    ELSE "Recovering"

\* The switch_frequency activations that are inside their actuator sequence
\* (lines 133-171).
InFlight ==
    { i \in DOMAIN stack :
        /\ stack[i].fn = "switch_frequency"
        /\ stack[i].pc \in {"actuate", "validate"} }

\* The allow-list as the specification states it: 2.4 GHz channels 1-11 and
\* the 5 GHz non-DFS channels.
SpecAllowedChannels == (1..11) \cup {36, 40, 44, 48, 149, 153, 157, 161}

SpecAllowList == { p[2] : p \in { q \in CH_TO_FREQ : q[1] \in SpecAllowedChannels } }

\* The frequencies of the 5 GHz non-DFS channels 36, 40, 44, 48, 149, 153,
\* 157 and 161.
NonDfs5GHzFreqs == {5180, 5200, 5220, 5240, 5745, 5765, 5785, 5805}

\* ----------------------------------------------------------------- claims

\* C1 (as claimed): when a broadcast has ended, every connection that was
\* registered when it started and whose send did not fail was sent the
\* message, and every connection whose send failed is out of the registry.
C1_BroadcastReachesAll ==
    bc_state \in {"done", "aborted"} =>
        /\ \A c \in Range(bc_start) : c \notin bc_failed => c \in bc_got
        /\ \A c \in bc_failed : c \notin Range(clients)

\* C2: at most one switch_frequency activation is inside its actuator
\* sequence, and while one is, the receive loop is inside its call with the
\* latch set (it is not reading frames).
C2_SingleFlight ==
    /\ Cardinality(InFlight) <= 1
    /\ InFlight # {} => (lpc = "switch" /\ switching_event)

\* C2 witness: a retry made by the recovery loop is in its actuator sequence
\* while a switch_frequency frame is waiting to be read.
C2_Witness ==
    /\ Len(stack) >= 3
    /\ InFlight # {}
    /\ inbox # <<>>
    /\ Received(Head(inbox)).a_id = switch_frequency_id

\* C3 (as claimed): one received message causes at most two switch attempts.
C3_AtMostTwoAttempts == attempts <= 2

\* C3 (amended): every switch attempt after the first one of a message is
\* made by the recovery loop, while the agent runs, once the recovery
\* interval has elapsed since the loop was entered, with no frame read and
\* the target unchanged; and a retry whose re-queried frequency differs from
\* the target enters Recovering again, as the first attempt does.
C3_RetryAfterEveryFailure ==
    [][ /\ (attempts' # attempts /\ attempts' >= 2) =>
              /\ attempts' = attempts + 1
              /\ Phase = "Recovering"
              /\ Phase' = "Switching"
              /\ running
              /\ now - Top(stack).entered >= periodic_recovery_switch
              /\ inbox' = inbox
              /\ target_frequency' = target_frequency
        /\ ( /\ Phase = "Switching"
             /\ Top(stack).pc = "validate"
             /\ stack' # stack
             /\ PyNe(current_frequency', target_frequency) ) =>
              /\ Phase' = "Recovering"
              /\ Len(stack') = Len(stack) + 1
      ]_vars

\* C3 witness: a third switch attempt for one received message.
C3_Witness == attempts >= 3 /\ Phase = "Switching"

\* C4: an entry into the recovery loop has called switch_frequency at most
\* once, and a call it made came no sooner than periodic_recovery_switch
\* after the entry.
C4_OneRetryAfterInterval ==
    \A i \in DOMAIN stack :
        stack[i].fn = "recovering_switch_error" =>
            /\ stack[i].calls <= 1
            /\ stack[i].calls = 1 =>
                 stack[i].current_time - stack[i].entered
                     >= periodic_recovery_switch

\* C4 witness: a recovery loop has made its call.
C4_Witness ==
    \E i \in DOMAIN stack :
        /\ stack[i].fn = "recovering_switch_error"
        /\ stack[i].calls = 1

\* C5 (as claimed): after a switch_frequency message whose frequency is
\* outside the allow-list has been handled, no switch attempt is under way.
C5_InvalidNeverSwitches ==
    ( /\ last.op = "receive"
      /\ last.a_id = switch_frequency_id
      /\ last.freq \notin SpecAllowList ) => stack = <<>>

\* C6: after update_target_freq(f) with f outside the allow-list, the target
\* is what it was before the call.
C6_InvalidLeavesTarget ==
    (last.op = "update_target_freq" /\ last.freq \notin SpecAllowList) =>
        target_frequency = last.before

\* C6 witness: a known frequency of a DFS channel was offered to an agent
\* holding a target, which it still holds.
C6_Witness ==
    /\ last.op = "update_target_freq"
    /\ last.freq = 5260
    /\ last.before = 5805
    /\ target_frequency = 5805

\* C7 (as claimed): after update_target_freq(f) with f in the allow-list of
\* 2.4 GHz channels 1-11 and 5 GHz non-DFS channels, the target is f.
C7_AllowListSetsTarget ==
    (last.op = "update_target_freq" /\ last.freq \in SpecAllowList) =>
        target_frequency = last.freq

\* C7 (amended): after update_target_freq(f) with f the frequency of one of
\* the 5 GHz non-DFS channels 36, 40, 44, 48, 149, 153, 157, 161, the target
\* is f.
C7_NonDfs5GHzSetsTarget ==
    (last.op = "update_target_freq" /\ last.freq \in NonDfs5GHzFreqs) =>
        target_frequency = last.freq

\* C7 witness: an allow-listed frequency replaced another target.
C7_Witness ==
    /\ last.op = "update_target_freq"
    /\ last.freq = 5805
    /\ last.before = 5180
    /\ target_frequency = 5805

\* C8 (as claimed): a poll that has read the trigger file leaves it holding
\* {"freq": null} when it ends.
C8_PollResetsTrigger ==
    [][ (poll_pc \in {"send", "reset"} /\ poll_pc' = "sleep") =>
            json_file' = Null ]_vars

\* C9 (as claimed): a value written to the trigger file is broadcast at most
\* once.
C9_AtMostOneBroadcast == bc_count <= 1

\* C10: after the validation step of a switch attempt, if the re-queried
\* frequency equals the target the agent is back in the receive loop (or
\* out of it, once stopped), latch clear, with current_frequency =
\* target_frequency; if it differs, the
\* agent is waiting in the recovery loop.
C10_ValidationOutcome ==
    last.op = "validate" =>
        IF PyEq(last.freq, last.before)
        THEN /\ Phase = "Idle"
             /\ lpc = "recv" \/ (~running /\ lpc = "exit")
             /\ ~switching_event
             /\ current_frequency = last.freq
             /\ current_frequency = target_frequency
        ELSE /\ Phase = "Recovering"
             /\ Top(stack).pc = "wait"
             /\ current_frequency = last.freq

\* C10 witness: a retry has succeeded, so that an earlier attempt had failed
\* and entered Recovering, and the agent is Idle on the target.
C10_Witness ==
    /\ last.op = "validate"
    /\ PyEq(last.freq, last.before)
    /\ attempts >= 2
    /\ Phase = "Idle"

C18_RoundTrip ==
    cd_pc = "got" =>
        /\ cd_got.ok
        /\ cd_got.a_id = cd_msg[1][2]
        /\ cd_got.freq = (IF Len(cd_msg) = 2 THEN cd_msg[2][2] ELSE None)
        /\ decode(encode(packb(cd_msg))).data = packb(cd_msg)

\* C18 witness: switch_frequency to 5805 went through the codec as the 19
\* bytes 15:<map>, and came out as (4, 5805).
C18_Witness ==
    /\ cd_pc = "got"
    /\ cd_msg = Dict(switch_frequency_id, 5805)
    /\ Len(cd_wire) = 19
    /\ cd_got = [ok |-> TRUE, a_id |-> switch_frequency_id, freq |-> 5805]

\* The failure kinds of a received frame: the declared length does not match
\* the bytes; the payload is no map; the map's action id is not one of the
\* five.
FramingError(frame) == frame # Eof /\ ~decode(frame).ok

MalformedPayload(frame) ==
    decode(frame).ok /\ ~unpackb(decode(frame).data).ok

UnknownAction(frame) ==
    Received(frame).ok /\ Received(frame).a_id \notin ActionIds

\* The listen thread of a running agent reads the frame at the head of the
\* inbox.
ReadStep ==
    running /\ lpc = "recv" /\ inbox # <<>> /\ inbox' = Tail(inbox)

\* C15 (as claimed): the read of a frame with a framing failure or a payload
\* decode failure exits the receive loop.
C15_DecodeFailureTerminal ==
    [][ ( /\ ReadStep
          /\ FramingError(Head(inbox)) \/ MalformedPayload(Head(inbox)) )
            => lpc' = "exit" ]_vars

\* C15 (amended): a framing failure is connection-terminal: its read exits
\* the receive loop, and once the loop has exited it stays so and the agent
\* reads no frame and changes neither target nor phase; a payload decode
\* failure is not terminal: the loop is back at its read, target and phase
\* untouched.
C15_FramingFailureTerminal ==
    [][ /\ (ReadStep /\ FramingError(Head(inbox))) => lpc' = "exit"
        /\ lpc = "exit" =>
             /\ lpc' = "exit"
             /\ inbox' = inbox
             /\ target_frequency' = target_frequency
             /\ stack' = stack
        /\ (ReadStep /\ MalformedPayload(Head(inbox))) =>
             /\ lpc' = "recv"
             /\ target_frequency' = target_frequency
             /\ stack' = stack
      ]_vars

\* C15 witness: the loop has exited on a framing failure and left a valid
\* switch_frequency frame unread.
C15_Witness ==
    /\ last.op = "receive_framing_error"
    /\ lpc = "exit"
    /\ inbox # <<>>
    /\ Received(Head(inbox)).ok
    /\ Received(Head(inbox)).a_id = switch_frequency_id

C17_StopReturns ==
    /\ stop_pc = "joining" =>
           ~(lpc = "recv" /\ ~recv_wakes /\ inbox = <<>>)
    /\ stop_pc = "returned" => (lpc = "exit" /\ stack = <<>>)

\* C14: a connection attempt is one of at most max_retries (3): it follows
\* fewer than 3 refused ones, and each refused one before it was followed by
\* a pause of at least 3 time units; an attempt that succeeds starts the
\* receive loop and is the last one; the third refused attempt ends the
\* process, which then neither connects nor starts the receive loop; and
\* once the receive loop has started, no attempt is made.
C14_ConnectRetries ==
    [][ /\ (lpc = "connect" /\ lpc' # "connect") =>
              /\ number_retries < max_retries
              /\ number_retries >= 1 => now - sleep_start >= connect_sleep
              /\ \/ lpc' = "recv" /\ last'.op = "connected"
                 \/ /\ lpc' = "connect_sleep"
                    /\ number_retries' = number_retries + 1
                    /\ number_retries' < max_retries
                    /\ sleep_start' = now
                 \/ /\ lpc' = "fatal"
                    /\ number_retries' = max_retries
        /\ lpc = "connect_sleep" => lpc' \in {"connect_sleep", "connect"}
        /\ lpc = "fatal" => (lpc' = "fatal" /\ inbox' = inbox /\ stack' = stack)
        /\ lpc \in {"recv", "switch", "exit"} =>
              lpc' \in {"recv", "switch", "exit"}
        /\ lpc' = "recv" => lpc \in {"connect", "recv", "switch"}
      ]_vars

\* C14 witness: the third attempt is about to be made, two refused ones and
\* two pauses behind it.
C14_Witness ==
    /\ lpc = "connect"
    /\ number_retries = 2
    /\ now - sleep_start >= connect_sleep

\* C12 (as claimed): once the orchestrator's stop() has returned, the flag
\* of the accept and poll loops is cleared and the poll loop has ended,
\* every connection in the registry is closed, and the listening socket is
\* closed.
C12_StopClosesAll ==
    main_pc = "stopped" =>
        /\ ~srv_running
        /\ poll_pc = "exited"
        /\ \A c \in Range(clients) : c \in conn_closed
        /\ ~listening

\* C13 (as claimed): once the handler of an interrupt signal has finished,
\* every registered connection is stopped, the listening socket is closed
\* and the poll loop has ended, so that no poll reads the trigger and no
\* broadcast is sent from then on.
C13_InterruptShutsDown ==
    (interrupted /\ main_pc \in {"stopped", "exited"}) =>
        /\ \A c \in Range(clients) : c \in conn_closed
        /\ ~listening
        /\ ~srv_running
        /\ poll_pc = "exited"

\* C20 (as claimed): a poll acts exactly on an integer trigger: reading an
\* integer f it sets the target to f and goes on to send, and when the
\* sending ends every connection registered at its start was sent the
\* message, which carries switch_frequency (4) and the target; reading
\* null, a non-integer or an object without "freq" it leaves the target as
\* it was and sends nothing; a missing or unreadable file changes nothing.
C20_ActsOnIntegersOnly ==
    [][ /\ (poll_pc = "sleep" /\ poll_pc' # poll_pc /\ poll_pc' # "exited") =>
              IF json_file.kind = "int"
              THEN /\ poll_pc' = "send"
                   /\ srv_target_frequency' = json_file.freq
              ELSE /\ poll_pc' = "reset"
                   /\ srv_target_frequency' = srv_target_frequency
                   /\ bc_got' = bc_got
                   /\ inbox' = inbox
        /\ (poll_pc = "sleep" /\ poll_pc' = poll_pc) =>
              srv_target_frequency' = srv_target_frequency
        /\ (poll_pc = "send" /\ poll_pc' # "send") =>
              \A c \in Range(bc_start) : c \in bc_got'
        /\ (poll_pc = "send" /\ inbox' # inbox) =>
              /\ inbox' = Append(inbox, inbox'[Len(inbox')])
              /\ Received(inbox'[Len(inbox')]) =
                     [ok |-> TRUE, a_id |-> switch_frequency_id,
                      freq |-> srv_target_frequency]
      ]_vars

\* C19 (as claimed): convergence: whenever a poll has read the allow-listed
\* trigger frequency while the agent is registered, the agent eventually is
\* Idle in its receive loop with current_frequency equal to the
\* orchestrator's target.
C19_Converges ==
    ( /\ poll_pc = "send"
      /\ bc_state = "running"
      /\ AgentConn \in Range(bc_start)
      /\ srv_target_frequency = 5805 )
        ~> ( /\ Phase = "Idle"
             /\ lpc = "recv"
             /\ current_frequency = 5805
             /\ current_frequency = srv_target_frequency )

\* C21 (as claimed): the orchestrator's target frequency changes only in a
\* poll's read of the trigger file, and only to an integer the file holds:
\* accept, the broadcast, the interrupt handler and stop() leave it as it
\* is, so that it is the last integer read, or the startup value.
C21_TargetChangedOnlyByPoll ==
    [][ srv_target_frequency' # srv_target_frequency =>
            /\ poll_pc = "sleep"
            /\ poll_pc' = "send"
            /\ json_file.kind = "int"
            /\ srv_target_frequency' = json_file.freq
      ]_vars

\* The step of a switch attempt whose actuator sequence raises.
ActuatorRaises ==
    /\ stack # <<>>
    /\ Top(stack).fn = "switch_frequency"
    /\ Top(stack).pc = "actuate"
    /\ last'.op = "actuate_raise"

ActuationError ==
    /\ stack # <<>>
    /\ Top(stack).fn = "switch_frequency"
    /\ Top(stack).pc = "actuate"
    /\ last'.op \in {"actuate_raise", "actuate_conf_none"}

\* C23 (as claimed): an actuation error surfaces as a failed switch: the
\* attempt goes on to the comparison of the live frequency with the target
\* (which, when they differ, enters the recovery path).
C23_ErrorReachesValidation ==
    [][ ActuationError =>
            /\ stack' # <<>>
            /\ Top(stack').fn = "switch_frequency"
            /\ Top(stack').pc = "validate"
      ]_vars

\* A frame is appended to the agent's connection.
FrameSent ==
    /\ Len(inbox') = Len(inbox) + 1
    /\ SubSeq(inbox', 1, Len(inbox)) = inbox

\* The frame at the head of the agent's connection is taken off it.
FrameRead ==
    /\ inbox # <<>>
    /\ inbox' = Tail(inbox)

SendsTo(c) ==
    /\ poll_pc = "send"
    /\ iter_idx < Len(clients)
    /\ clients[iter_idx + 1] = c
    /\ iter_idx' = iter_idx + 1
    /\ bc_failed' = bc_failed

\* C25 (as claimed): with the accept loop appending to the registry at any
\* point of a broadcast, no connection is sent the message twice, and when
\* the iteration has ended every connection registered when the broadcast
\* started whose send did not fail has been sent it.
C25_AcceptInterleavesSafely ==
    [][ /\ \A c \in 1..MaxClients : SendsTo(c) => c \notin bc_got
        /\ bc_state' = "done" =>
              \A c \in Range(bc_start) \ bc_failed' : c \in bc_got'
      ]_vars

\* C26 (as claimed): no trigger is lost: when a poll resets the trigger file
\* to null, an integer the file holds has been read and broadcast by a poll
\* since it was written, also when it was written between that poll's read
\* and its reset.
C26_NoTriggerLost ==
    [][ ( /\ poll_pc = "reset"
          /\ json_file.kind = "int"
          /\ json_file' = Null ) => bc_count >= 1
      ]_vars

\* C27: the switching latch is clear whenever the receive loop is at its
\* read (and so whenever it evaluates its guard, in the same iteration); it
\* is set only by the receive loop as it calls switch_frequency and cleared
\* only when that call, nested recovery included, has returned; and a
\* switch_frequency message whose frequency the table knows starts a switch
\* whenever the current frequency differs from the target.
C27_LatchClearAtGuard ==
    [][ /\ lpc = "recv" => ~switching_event
        /\ lpc' = "recv" => ~switching_event'
        /\ (~switching_event /\ switching_event') =>
              /\ lpc = "recv"
              /\ FrameRead
              /\ lpc' = "switch"
              /\ stack = <<>>
              /\ stack' = <<SwitchFrame>>
        /\ (switching_event /\ ~switching_event') =>
              /\ lpc = "switch"
              /\ stack # <<>>
              /\ stack' = <<>>
        /\ ( /\ lpc = "recv"
             /\ FrameRead
             /\ Received(Head(inbox)).ok
             /\ Received(Head(inbox)).a_id = switch_frequency_id
             /\ ~map_freq_to_channel_raises(Received(Head(inbox)).freq)
             /\ PyNe(current_frequency, target_frequency') ) =>
              /\ switching_event'
              /\ lpc' = "switch"
      ]_vars

\* C27 witness: a complete call with a nested recovery has returned, and the
\* running agent is at its read with the latch clear and a frame waiting.
C27_Witness ==
    /\ running
    /\ lpc = "recv"
    /\ ~switching_event
    /\ last.op = "validate"
    /\ attempts >= 2
    /\ inbox # <<>>
    /\ Received(Head(inbox)).a_id = switch_frequency_id

\* C28: a frame reaches the agent only in the step of a broadcast whose
\* iterator yields the agent's connection, and it is switch_frequency with
\* the orchestrator's target; accept sends nothing; a broadcast starts only
\* from a poll that reads a trigger not yet reset; and an agent in Idle with
\* nothing to read stays in Idle on its frequency.
C28_SentOnlyByBroadcast ==
    [][ /\ inbox' # inbox =>
              \/ FrameRead
              \/ /\ poll_pc = "send"
                 /\ iter_idx < Len(clients)
                 /\ clients[iter_idx + 1] = AgentConn
                 /\ inbox' = Append(inbox,
                                    FrameOf([a_id |-> switch_frequency_id,
                                             freq |-> srv_target_frequency]))
        /\ accepted' # accepted => inbox' = inbox
        /\ (poll_pc # "send" /\ poll_pc' = "send") =>
              /\ json_file \notin {Null}
              /\ json_file.kind \in {"int", "bool"}
        /\ (Phase = "Idle" /\ inbox = <<>>) =>
              /\ Phase' = "Idle"
              /\ current_frequency' = current_frequency
      ]_vars

\* C28 witness: the agent was registered after a broadcast of 5805 that
\* started without it; the trigger is reset, nothing was sent to the agent
\* and it is in Idle on 5180.
C28_Witness ==
    /\ AgentConn \in Range(clients)
    /\ AgentConn \notin Range(bc_start)
    /\ bc_state = "done"
    /\ json_file = Null
    /\ poll_pc = "sleep"
    /\ srv_target_frequency = 5805
    /\ lpc = "recv"
    /\ inbox = <<>>
    /\ last.op = "connected"
    /\ current_frequency = 5180

====
